---- MODULE Spec2Model ----
(***************************************************************************)
(* A model of the shape editor's data model (kacperoo29/gk):               *)
(*   src/src/model/shape.rs      ShapeStorage, ShapeType, ShapeState       *)
(*   src/src/model/line.rs       Line                                      *)
(*   src/src/model/rectangle.rs  Rectangle                                 *)
(*   src/src/model/circle.rs     Circle                                    *)
(*                                                                         *)
(* Coordinates are f64 in the source and exact integers here.  A circle's  *)
(* radius is a square root, so the model stores the radius r as the        *)
(* integer r*|r| (field radius_sq): the map r |-> r*|r| is a strictly      *)
(* increasing bijection, so comparisons and tests against 0 carry over.    *)
(* Option<T> is a sequence: <<>> is None, <<v>> is Some(v).  A Vec index   *)
(* is 0-based in the source; shapes[i] of the source is shapes[i + 1].     *)
(* A Rust panic aborts the program: it sets panicked, keeps whatever the   *)
(* handler had written up to that point, and no handler runs afterwards.   *)
(***************************************************************************)
EXTENDS Integers, Sequences, FiniteSets, TLC

VARIABLES
    shapes,                 \* ShapeStorage.shapes
    current_shape_idx,      \* ShapeStorage.current_shape_idx (usize)
    highlighted_shape_idx,  \* ShapeStorage.highlighted_shape_idx (-1: None)
    selected_shape_idx,     \* ShapeStorage.selected_shape_idx (-1: None)
    panicked,               \* a handler has panicked
    app_shape_type,         \* App.shape_type
    mode,                   \* App.mode
    is_dragging,            \* App.is_dragging
    last_cursor_pos,        \* App.last_cursor_pos
    resize_anchor           \* App.resize_anchor

\* The fields of App next to its shape_storage.  App.json holds the text of
\* the JSON text area; no handler reads it, and it is left out.
app_fields == <<app_shape_type, mode, is_dragging, last_cursor_pos, resize_anchor>>

vars == <<shapes, current_shape_idx, highlighted_shape_idx, selected_shape_idx,
          panicked, app_fields>>

----------------------------------------------------------------------------
(* Bounds of the model *)

\* Drawing, saving and loading are followed while the collection holds at
\* most MaxShapes shapes.
MaxShapes == 2

\* Editing (set_prop, move_by, resize) is followed while the collection holds
\* at most MaxEdited shapes.
MaxEdited == 1

\* The coordinate the inputs are built from
Unit == 6

\* The hit-test and resize tolerance (5.0 in the source).
Tolerance == 5

----------------------------------------------------------------------------
(* Option and the enumerations *)

None == <<>>

Some(v) == <<v>>

is_some(o) == o /= None

unwrap(o) == o[1]

NoIdx == -1

ShapeType == {"Line", "Rectangle", "Circle"}

ShapeState == {"New", "Drawing", "Complete"}

\* impl FromStr for ShapeState: Ok(state) as <<state>>, Err as <<>>.
from_str(s) == IF s \in ShapeState THEN Some(s) ELSE None

----------------------------------------------------------------------------
(* Shapes: Line, Rectangle and Circle share one record; a kind leaves the  *)
(* fields it does not have at their defaults.                              *)

Abs(n) == IF n < 0 THEN -n ELSE n

Sq(n) == n * n

\* Line::new, Rectangle::new, Circle::new behind ShapeStorage::create_helper
create_helper(shape_type) ==
    [kind |-> shape_type, state |-> "New", origin |-> None, end |-> None,
     width |-> 0, height |-> 0, radius_sq |-> 0]

\* Rectangle::set_end and Circle::set_end unwrap the origin; Line::set_end does not.
set_end_panics(s) == s.kind /= "Line" /\ s.origin = None

Line_set_end(s, p) == [s EXCEPT !.end = Some(p)]

\* Faulty variant of Rectangle::set_end: the extent loses its sign.
Rectangle_set_end_unsigned(s, p) ==
    LET o == unwrap(s.origin)
    IN  [s EXCEPT !.width = Abs(p[1] - o[1]), !.height = Abs(p[2] - o[2])]

Rectangle_set_end(s, p) ==
    LET o == unwrap(s.origin)
    IN  [s EXCEPT !.width = p[1] - o[1], !.height = p[2] - o[2]]

Circle_set_end(s, p) ==
    LET o == unwrap(s.origin)
    IN  [s EXCEPT !.radius_sq = Sq(o[1] - p[1]) + Sq(o[2] - p[2])]

\* Shape::set_end, defined when ~set_end_panics(s)
set_end(s, p) ==
    CASE s.kind = "Line" -> Line_set_end(s, p)
      [] s.kind = "Rectangle" -> Rectangle_set_end(s, p)
      [] s.kind = "Circle" -> Circle_set_end(s, p)

\* Faulty variant of Line::add_point: a point added to a Complete line starts
\* the line over.
Line_add_point_restarting(s, p) ==
    IF is_some(s.origin) /\ s.state /= "Complete"
    THEN [s EXCEPT !.end = Some(p), !.state = "Complete"]
    ELSE [s EXCEPT !.origin = Some(p), !.end = None, !.state = "Drawing"]

Line_add_point(s, p) ==
    IF is_some(s.origin)
    THEN [s EXCEPT !.end = Some(p), !.state = "Complete"]
    ELSE [s EXCEPT !.origin = Some(p), !.state = "Drawing"]

Rectangle_add_point(s, p) ==
    IF is_some(s.origin)
    THEN [Rectangle_set_end(s, p) EXCEPT !.state = "Complete"]
    ELSE [s EXCEPT !.origin = Some(p), !.state = "Drawing"]

Circle_add_point(s, p) ==
    IF is_some(s.origin)
    THEN [Circle_set_end(s, p) EXCEPT !.state = "Complete"]
    ELSE [s EXCEPT !.origin = Some(p), !.state = "Drawing"]

\* Shape::add_point
add_point(s, p) ==
    CASE s.kind = "Line" -> Line_add_point(s, p)
      [] s.kind = "Rectangle" -> Rectangle_add_point(s, p)
      [] s.kind = "Circle" -> Circle_add_point(s, p)

\* Shape::set_state
set_state(s, state) == [s EXCEPT !.state = state]

get_origin(s) == s.origin

\* Shape::get_end: Line's stored end; Rectangle's and Circle's derived point,
\* present exactly when the origin is.  The Circle's point is
\* (ox + radius, oy); only its presence is read, so the model keeps the
\* origin in its place.
get_end(s) ==
    CASE s.kind = "Line" -> s.end
      [] s.kind = "Rectangle" ->
            IF s.origin = None THEN None
            ELSE Some(<<unwrap(s.origin)[1] + s.width, unwrap(s.origin)[2] + s.height>>)
      [] s.kind = "Circle" ->
            IF s.origin = None THEN None ELSE Some(unwrap(s.origin))

\* Shape::is_drawable
is_drawable(s) ==
    /\ s.state \in {"Complete", "Drawing"}
    /\ CASE s.kind = "Line" -> is_some(s.end)
         [] s.kind = "Rectangle" -> s.width /= 0 /\ s.height /= 0
         [] s.kind = "Circle" -> s.radius_sq /= 0

\* Line::contains and Rectangle::contains unwrap the origin of a drawable shape.
contains_panics(s) ==
    s.kind \in {"Line", "Rectangle"} /\ is_drawable(s) /\ s.origin = None

\* Line::contains, in exact arithmetic: t = dot / |d|^2 lies in [0, 1], and the
\* squared distance to the projection, |p - o|^2 - dot^2 / |d|^2, is at most 25.
\* A line with origin = end gives t = 0/0 = NaN, which fails the last comparison.
Line_contains(s, p) ==
    /\ is_drawable(s)
    /\ LET o == unwrap(s.origin)
           e == unwrap(s.end)
           dx == e[1] - o[1]
           dy == e[2] - o[2]
           d2 == dx * dx + dy * dy
           dot == (p[1] - o[1]) * dx + (p[2] - o[2]) * dy
           po2 == Sq(p[1] - o[1]) + Sq(p[2] - o[2])
       IN  /\ d2 /= 0
           /\ ~(dot < 0 \/ dot > d2)
           /\ po2 * d2 - dot * dot <= Tolerance * Tolerance * d2

\* Faulty variant of Rectangle::contains: the bounds are not normalized.
Rectangle_contains_unnormalized(s, p) ==
    /\ is_drawable(s)
    /\ LET o == unwrap(s.origin)
       IN  /\ p[1] >= o[1] /\ p[1] <= o[1] + s.width
           /\ p[2] >= o[2] /\ p[2] <= o[2] + s.height

Rectangle_contains(s, p) ==
    /\ is_drawable(s)
    /\ LET o == unwrap(s.origin)
           ex == o[1] + s.width
           ey == o[2] + s.height
           x1 == IF ex > o[1] THEN o[1] ELSE ex
           x2 == IF ex > o[1] THEN ex ELSE o[1]
           y1 == IF ey > o[2] THEN o[2] ELSE ey
           y2 == IF ey > o[2] THEN ey ELSE o[2]
       IN  p[1] >= x1 /\ p[1] <= x2 /\ p[2] >= y1 /\ p[2] <= y2

\* Circle::contains: distance <= radius, the distance a square root (>= 0).
Circle_contains(s, p) ==
    /\ is_some(s.origin)
    /\ LET o == unwrap(s.origin)
       IN  Sq(o[1] - p[1]) + Sq(o[2] - p[2]) <= s.radius_sq

\* Shape::contains, defined when ~contains_panics(s)
contains(s, p) ==
    CASE s.kind = "Line" -> Line_contains(s, p)
      [] s.kind = "Rectangle" -> Rectangle_contains(s, p)
      [] s.kind = "Circle" -> Circle_contains(s, p)

\* Faulty variant of move_by: a coordinate is kept from going below 0.
move_by_clamped(s, d) ==
    LET Clamp(n) == IF n < 0 THEN 0 ELSE n
        Moved(o) == IF is_some(o)
                    THEN Some(<<Clamp(unwrap(o)[1] + d[1]), Clamp(unwrap(o)[2] + d[2])>>)
                    ELSE None
    IN  IF s.kind = "Line"
        THEN [s EXCEPT !.origin = Moved(s.origin), !.end = Moved(s.end)]
        ELSE [s EXCEPT !.origin = Moved(s.origin)]

\* Shape::move_by
move_by(s, d) ==
    CASE s.kind = "Line" ->
            [s EXCEPT
               !.origin = IF is_some(s.origin)
                          THEN Some(<<unwrap(s.origin)[1] + d[1], unwrap(s.origin)[2] + d[2]>>)
                          ELSE None,
               !.end = IF is_some(s.end)
                       THEN Some(<<unwrap(s.end)[1] + d[1], unwrap(s.end)[2] + d[2]>>)
                       ELSE None]
      [] s.kind \in {"Rectangle", "Circle"} ->
            [s EXCEPT
               !.origin = IF is_some(s.origin)
                          THEN Some(<<unwrap(s.origin)[1] + d[1], unwrap(s.origin)[2] + d[2]>>)
                          ELSE None]

ORIGIN_X_KEY == "Origin x"

ORIGIN_Y_KEY == "Origin y"

END_X_KEY == "End x"

END_Y_KEY == "End y"

WIDTH_KEY == "Width"

HEIGHT_KEY == "Height"

RADIUS_KEY == "Radius"

\* The keys set_prop of each kind matches on.
PropKeys(kind) ==
    CASE kind = "Line" -> {ORIGIN_X_KEY, ORIGIN_Y_KEY, END_X_KEY, END_Y_KEY}
      [] kind = "Rectangle" -> {ORIGIN_X_KEY, ORIGIN_Y_KEY, WIDTH_KEY, HEIGHT_KEY}
      [] kind = "Circle" -> {ORIGIN_X_KEY, ORIGIN_Y_KEY, RADIUS_KEY}

\* value.parse().unwrap() in a matched branch: value is Some(number) when the
\* string parses as f64 and None when it does not.
set_prop_panics(s, key, value) == key \in PropKeys(s.kind) /\ value = None

\* Faulty variant of the "Origin x" / "End x" branch: y is not carried over.
SetX_resetting(o, v) == Some(<<v, 0>>)

\* Some((v, y)) or Some((v, 0.0)); Some((x, v)) or Some((0.0, v))
SetX(o, v) == IF is_some(o) THEN Some(<<v, unwrap(o)[2]>>) ELSE Some(<<v, 0>>)

SetY(o, v) == IF is_some(o) THEN Some(<<unwrap(o)[1], v>>) ELSE Some(<<0, v>>)

\* Shape::set_prop, defined when ~set_prop_panics(s, key, value)
set_prop(s, key, value) ==
    IF key \notin PropKeys(s.kind) THEN s
    ELSE LET v == unwrap(value)
         IN  CASE key = ORIGIN_X_KEY -> [s EXCEPT !.origin = SetX(s.origin, v)]
               [] key = ORIGIN_Y_KEY -> [s EXCEPT !.origin = SetY(s.origin, v)]
               [] key = END_X_KEY -> [s EXCEPT !.end = SetX(s.end, v)]
               [] key = END_Y_KEY -> [s EXCEPT !.end = SetY(s.end, v)]
               [] key = WIDTH_KEY -> [s EXCEPT !.width = v]
               [] key = HEIGHT_KEY -> [s EXCEPT !.height = v]
               [] key = RADIUS_KEY -> [s EXCEPT !.radius_sq = v * Abs(v)]

\* f64::to_string: the decimal text of n, which parses back to n, so two texts
\* are equal exactly when their numbers are
to_string(n) == [text_of |-> n]

\* origin.unwrap_or((0.0, 0.0)) and end.unwrap_or((0.0, 0.0))
unwrap_or_zero(o) == IF is_some(o) THEN unwrap(o) ELSE <<0, 0>>

Line_get_props(s) ==
    << <<ORIGIN_X_KEY, to_string(unwrap_or_zero(s.origin)[1])>>,
       <<ORIGIN_Y_KEY, to_string(unwrap_or_zero(s.origin)[2])>>,
       <<END_X_KEY, to_string(unwrap_or_zero(s.end)[1])>>,
       <<END_Y_KEY, to_string(unwrap_or_zero(s.end)[2])>> >>

Rectangle_get_props(s) ==
    << <<ORIGIN_X_KEY, to_string(unwrap_or_zero(s.origin)[1])>>,
       <<ORIGIN_Y_KEY, to_string(unwrap_or_zero(s.origin)[2])>>,
       <<WIDTH_KEY, to_string(s.width)>>,
       <<HEIGHT_KEY, to_string(s.height)>> >>

\* The radius is held as radius * |radius|, and its text stands for that number.
Circle_get_props(s) ==
    << <<ORIGIN_X_KEY, to_string(unwrap_or_zero(s.origin)[1])>>,
       <<ORIGIN_Y_KEY, to_string(unwrap_or_zero(s.origin)[2])>>,
       <<RADIUS_KEY, to_string(s.radius_sq)>> >>

\* Shape::get_props
get_props(s) ==
    CASE s.kind = "Line" -> Line_get_props(s)
      [] s.kind = "Rectangle" -> Rectangle_get_props(s)
      [] s.kind = "Circle" -> Circle_get_props(s)

\* (a - b).abs() < epsilon
Near(a, b) == Abs(a - b) < Tolerance

\* Faulty variant of Line::resize: the end is looked at only when the origin
\* has not moved.
Line_resize_first_only(s, change, anchor) ==
    LET o == s.origin
        e == s.end
    IN  IF is_some(o) /\ Near(unwrap(o)[1], anchor[1]) /\ Near(unwrap(o)[2], anchor[2])
        THEN [s EXCEPT !.origin = Some(<<unwrap(o)[1] + change[1], unwrap(o)[2] + change[2]>>)]
        ELSE IF is_some(e) /\ Near(unwrap(e)[1], anchor[1]) /\ Near(unwrap(e)[2], anchor[2])
        THEN [s EXCEPT !.end = Some(<<unwrap(e)[1] + change[1], unwrap(e)[2] + change[2]>>)]
        ELSE s

Line_resize(s, change, anchor) ==
    LET o == s.origin
        e == s.end
    IN  [s EXCEPT
           !.origin = IF is_some(o) /\ Near(unwrap(o)[1], anchor[1]) /\ Near(unwrap(o)[2], anchor[2])
                      THEN Some(<<unwrap(o)[1] + change[1], unwrap(o)[2] + change[2]>>)
                      ELSE o,
           !.end = IF is_some(e) /\ Near(unwrap(e)[1], anchor[1]) /\ Near(unwrap(e)[2], anchor[2])
                   THEN Some(<<unwrap(e)[1] + change[1], unwrap(e)[2] + change[2]>>)
                   ELSE e]

\* Faulty variant of Rectangle::resize: the edges are tested before the corners.
Rectangle_resize_edges_first(s, change, anchor) ==
    IF s.origin = None THEN s
    ELSE LET ox == unwrap(s.origin)[1]
             oy == unwrap(s.origin)[2]
             ex == ox + s.width
             ey == oy + s.height
             x1 == IF ex > ox THEN ox ELSE ex
             x2 == IF ex > ox THEN ex ELSE ox
             y1 == IF ey > oy THEN oy ELSE ey
             y2 == IF ey > oy THEN ey ELSE oy
             x == anchor[1]
             y == anchor[2]
         IN  IF Near(x, x1) THEN
                 [s EXCEPT !.origin = Some(<<ox + change[1], oy>>),
                           !.width = s.width - change[1]]
             ELSE IF Near(x, x2) THEN
                 [s EXCEPT !.width = s.width + change[1]]
             ELSE IF Near(y, y1) THEN
                 [s EXCEPT !.origin = Some(<<ox, oy + change[2]>>),
                           !.height = s.height - change[2]]
             ELSE IF Near(y, y2) THEN
                 [s EXCEPT !.height = s.height + change[2]]
             ELSE s

Rectangle_resize(s, change, anchor) ==
    IF s.origin = None THEN s
    ELSE LET ox == unwrap(s.origin)[1]
             oy == unwrap(s.origin)[2]
             ex == ox + s.width
             ey == oy + s.height
             x1 == IF ex > ox THEN ox ELSE ex
             x2 == IF ex > ox THEN ex ELSE ox
             y1 == IF ey > oy THEN oy ELSE ey
             y2 == IF ey > oy THEN ey ELSE oy
             x == anchor[1]
             y == anchor[2]
         IN  IF Near(x, x1) /\ Near(y, y1) THEN            \* top left
                 [s EXCEPT !.origin = Some(<<ox + change[1], oy + change[2]>>),
                           !.width = s.width - change[1],
                           !.height = s.height - change[2]]
             ELSE IF Near(x, x2) /\ Near(y, y1) THEN       \* top right
                 [s EXCEPT !.origin = Some(<<ox, oy + change[2]>>),
                           !.width = s.width + change[1],
                           !.height = s.height - change[2]]
             ELSE IF Near(x, x1) /\ Near(y, y2) THEN       \* bottom left
                 [s EXCEPT !.origin = Some(<<ox + change[1], oy>>),
                           !.width = s.width - change[1],
                           !.height = s.height + change[2]]
             ELSE IF Near(x, x2) /\ Near(y, y2) THEN       \* bottom right
                 [s EXCEPT !.width = s.width + change[1],
                           !.height = s.height + change[2]]
             ELSE IF Near(x, x1) THEN                      \* left
                 [s EXCEPT !.origin = Some(<<ox + change[1], oy>>),
                           !.width = s.width - change[1]]
             ELSE IF Near(x, x2) THEN                      \* right
                 [s EXCEPT !.width = s.width + change[1]]
             ELSE IF Near(y, y1) THEN                      \* top
                 [s EXCEPT !.origin = Some(<<ox, oy + change[2]>>),
                           !.height = s.height - change[2]]
             ELSE IF Near(y, y2) THEN                      \* bottom
                 [s EXCEPT !.height = s.height + change[2]]
             ELSE s

\* new_radius = sqrt(nx^2 + ny^2).abs()
Circle_resize(s, change, anchor) ==
    IF s.origin = None THEN s
    ELSE LET nx == unwrap(s.origin)[1] - anchor[1] + change[1]
             ny == unwrap(s.origin)[2] - anchor[2] + change[2]
         IN  [s EXCEPT !.radius_sq = Sq(nx) + Sq(ny)]

\* Shape::resize
resize(s, change, anchor) ==
    CASE s.kind = "Line" -> Line_resize(s, change, anchor)
      [] s.kind = "Rectangle" -> Rectangle_resize(s, change, anchor)
      [] s.kind = "Circle" -> Circle_resize(s, change, anchor)

----------------------------------------------------------------------------
(* JSON.  A per-shape document is a serde_json map: each possible field is *)
(* None (absent) or Some(value).  A JSON text is the sequence of its       *)
(* tokens: "[", "]", "," and whole per-shape objects.                      *)

EmptyDoc ==
    [type |-> None, state |-> None, origin_x |-> None, origin_y |-> None,
     end_x |-> None, end_y |-> None, width |-> None, height |-> None,
     origin |-> None, radius |-> None]

\* Circle::get_json unwraps the origin.
get_json_panics(s) == s.kind = "Circle" /\ s.origin = None

Line_get_json(s) ==
    [EmptyDoc EXCEPT
       !.type = Some("line"),
       !.state = Some(s.state),
       !.origin_x = IF is_some(s.origin) THEN Some(unwrap(s.origin)[1]) ELSE None,
       !.origin_y = IF is_some(s.origin) THEN Some(unwrap(s.origin)[2]) ELSE None,
       !.end_x = IF is_some(s.end) THEN Some(unwrap(s.end)[1]) ELSE None,
       !.end_y = IF is_some(s.end) THEN Some(unwrap(s.end)[2]) ELSE None]

Rectangle_get_json(s) ==
    [EmptyDoc EXCEPT
       !.type = Some("rectangle"),
       !.state = Some(s.state),
       !.origin_x = IF is_some(s.origin) THEN Some(unwrap(s.origin)[1]) ELSE None,
       !.origin_y = IF is_some(s.origin) THEN Some(unwrap(s.origin)[2]) ELSE None,
       !.width = Some(s.width),
       !.height = Some(s.height)]

Circle_get_json(s) ==
    [EmptyDoc EXCEPT
       !.type = Some("circle"),
       !.state = Some(s.state),
       !.origin = Some(<<unwrap(s.origin)[1], unwrap(s.origin)[2]>>),
       !.radius = Some(s.radius_sq)]

\* Shape::get_json, defined when ~get_json_panics(s)
get_json(s) ==
    CASE s.kind = "Line" -> Line_get_json(s)
      [] s.kind = "Rectangle" -> Rectangle_get_json(s)
      [] s.kind = "Circle" -> Circle_get_json(s)

\* ShapeState::from_str(state).unwrap() on a state string that is none of the
\* three; origin[0], origin[1] on a Circle's origin array shorter than two.
from_json_panics(s, doc) ==
    \/ is_some(doc.state) /\ from_str(unwrap(doc.state)) = None
    \/ s.kind = "Circle" /\ is_some(doc.origin) /\ Len(unwrap(doc.origin)) < 2

DocState(s, doc) ==
    IF is_some(doc.state) THEN unwrap(from_str(unwrap(doc.state))) ELSE s.state

DocOriginXY(s, doc) ==
    IF is_some(doc.origin_x) /\ is_some(doc.origin_y)
    THEN Some(<<unwrap(doc.origin_x), unwrap(doc.origin_y)>>)
    ELSE s.origin

Line_from_json(s, doc) ==
    [s EXCEPT
       !.origin = DocOriginXY(s, doc),
       !.end = IF is_some(doc.end_x) /\ is_some(doc.end_y)
               THEN Some(<<unwrap(doc.end_x), unwrap(doc.end_y)>>)
               ELSE s.end,
       !.state = DocState(s, doc)]

Rectangle_from_json(s, doc) ==
    [s EXCEPT
       !.state = DocState(s, doc),
       !.origin = DocOriginXY(s, doc),
       !.width = IF is_some(doc.width) THEN unwrap(doc.width) ELSE s.width,
       !.height = IF is_some(doc.height) THEN unwrap(doc.height) ELSE s.height]

Circle_from_json(s, doc) ==
    [s EXCEPT
       !.origin = IF is_some(doc.origin)
                  THEN Some(<<unwrap(doc.origin)[1], unwrap(doc.origin)[2]>>)
                  ELSE s.origin,
       !.radius_sq = IF is_some(doc.radius) THEN unwrap(doc.radius) ELSE s.radius_sq,
       !.state = DocState(s, doc)]

\* Shape::from_json, defined when ~from_json_panics(s, doc)
from_json(s, doc) ==
    CASE s.kind = "Line" -> Line_from_json(s, doc)
      [] s.kind = "Rectangle" -> Rectangle_from_json(s, doc)
      [] s.kind = "Circle" -> Circle_from_json(s, doc)

\* Tokens of a JSON text
Open == [tok |-> "[", doc |-> EmptyDoc]

Close == [tok |-> "]", doc |-> EmptyDoc]

Comma == [tok |-> ",", doc |-> EmptyDoc]

Obj(doc) == [tok |-> "{}", doc |-> doc]

\* A well-formed array text of the documents ds
RECURSIVE Elements(_)
Elements(ds) ==
    IF Len(ds) = 0 THEN <<>>
    ELSE IF Len(ds) = 1 THEN <<Obj(ds[1])>>
    ELSE <<Obj(ds[1]), Comma>> \o Elements(Tail(ds))

ArrayText(ds) == <<Open>> \o Elements(ds) \o <<Close>>

\* The loop of serialize_to_json: each shape's document, then ",".
RECURSIVE PushShapes(_)
PushShapes(ss) ==
    IF Len(ss) = 0 THEN <<>>
    ELSE <<Obj(get_json(ss[1])), Comma>> \o PushShapes(Tail(ss))

\* String::pop: the last character off, nothing off an empty string.  The last
\* character here is always a whole token ("[" or ",").
Pop(json) == IF Len(json) = 0 THEN json ELSE SubSeq(json, 1, Len(json) - 1)

serialize_panics(ss) == \E i \in 1..Len(ss) : get_json_panics(ss[i])

\* ShapeStorage::serialize_to_json, defined when ~serialize_panics(ss)
serialize_to_json(ss) == Pop(<<Open>> \o PushShapes(ss)) \o <<Close>>

\* serde_json::from_str::<Vec<Value>>: the text is "[", then nothing or
\* objects separated by ",", then "]".
WellFormedArray(json) ==
    /\ Len(json) >= 2
    /\ json[1] = Open
    /\ json[Len(json)] = Close
    /\ Len(json) = 2 \/ Len(json) % 2 = 1
    /\ \A i \in 2..(Len(json) - 1) :
          IF i % 2 = 0 THEN json[i].tok = "{}" ELSE json[i] = Comma

\* The array's elements, for a well-formed text
ArrayDocs(json) == [i \in 1..((Len(json) - 1) \div 2) |-> json[2 * i].doc]

TypeOfTag(tag) ==
    CASE tag = "line" -> "Line"
      [] tag = "rectangle" -> "Rectangle"
      [] tag = "circle" -> "Circle"

\* One pass of deserialize_from_json's loop panics: "type" is no string
\* (unwrap), names no shape kind (panic!), or from_json panics.
element_panics(doc) ==
    \/ doc.type = None
    \/ unwrap(doc.type) \notin {"line", "rectangle", "circle"}
    \/ from_json_panics(create_helper(TypeOfTag(unwrap(doc.type))), doc)

\* The shape one pass of the loop pushes
element_shape(doc) ==
    from_json(create_helper(TypeOfTag(unwrap(doc.type))), doc)

\* The index of the first element whose pass panics, Len(docs) + 1 if none
FirstPanic(docs) ==
    IF \E i \in 1..Len(docs) : element_panics(docs[i])
    THEN CHOOSE i \in 1..Len(docs) :
            /\ element_panics(docs[i])
            /\ \A j \in 1..(i - 1) : ~element_panics(docs[j])
    ELSE Len(docs) + 1

deserialize_panics(json) ==
    \/ ~WellFormedArray(json)
    \/ FirstPanic(ArrayDocs(json)) <= Len(ArrayDocs(json))

\* The shapes deserialize_from_json has pushed when it returns or panics
deserialize_pushed(json) ==
    IF ~WellFormedArray(json) THEN <<>>
    ELSE LET docs == ArrayDocs(json)
         IN  [i \in 1..(FirstPanic(docs) - 1) |-> element_shape(docs[i])]

----------------------------------------------------------------------------
(* ShapeStorage.  A storage value is the struct's four fields and whether  *)
(* a handler has panicked; each method is an operator from the storage it  *)
(* is called on to the storage it leaves.                                  *)

\* ShapeStorage::new
new ==
    [shapes |-> <<>>, current_shape_idx |-> 0, highlighted_shape_idx |-> NoIdx,
     selected_shape_idx |-> NoIdx, panicked |-> FALSE]

Panic(st) == [st EXCEPT !.panicked = TRUE]

\* shapes[idx] of the source
At(ss, idx) == ss[idx + 1]

Put(ss, idx, s) == [ss EXCEPT ![idx + 1] = s]

\* Indexing a Vec outside 0 .. len - 1 panics.
ValidIdx(ss, idx) == 0 <= idx /\ idx < Len(ss)

\* Faulty variant of create_shape: the index is not advanced.
create_shape_keeping_index(st, shape_type) ==
    LET pushed == [st EXCEPT !.shapes = Append(st.shapes, create_helper(shape_type))]
    IN  IF ValidIdx(pushed.shapes, pushed.current_shape_idx) THEN pushed ELSE Panic(pushed)

\* ShapeStorage::create_shape: the index is advanced, the shape pushed, and
\* shapes[current_shape_idx] returned.
create_shape(st, shape_type) ==
    LET pushed == [st EXCEPT !.current_shape_idx = st.current_shape_idx + 1,
                             !.shapes = Append(st.shapes, create_helper(shape_type))]
    IN  IF ValidIdx(pushed.shapes, pushed.current_shape_idx) THEN pushed ELSE Panic(pushed)

\* Faulty variant of get_or_create_shape: the current shape's state is not
\* looked at, so a Complete shape of the requested kind is handed out again.
get_or_create_ignoring_state(st, shape_type) ==
    IF Len(st.shapes) = 0 THEN
        LET pushed == [st EXCEPT !.shapes = Append(st.shapes, create_helper(shape_type))]
        IN  IF ValidIdx(pushed.shapes, pushed.current_shape_idx) THEN pushed ELSE Panic(pushed)
    ELSE IF ~ValidIdx(st.shapes, st.current_shape_idx) THEN Panic(st)
    ELSE IF At(st.shapes, st.current_shape_idx).kind /= shape_type THEN
        create_shape(st, shape_type)
    ELSE [st EXCEPT !.selected_shape_idx = st.current_shape_idx]

\* ShapeStorage::get_or_create_shape
get_or_create_shape(st, shape_type) ==
    IF Len(st.shapes) = 0 THEN
        LET pushed == [st EXCEPT !.shapes = Append(st.shapes, create_helper(shape_type))]
        IN  IF ValidIdx(pushed.shapes, pushed.current_shape_idx) THEN pushed ELSE Panic(pushed)
    ELSE IF ~ValidIdx(st.shapes, st.current_shape_idx) THEN Panic(st)
    ELSE IF At(st.shapes, st.current_shape_idx).kind /= shape_type THEN
        create_shape(st, shape_type)
    ELSE IF At(st.shapes, st.current_shape_idx).state = "Complete" THEN
        create_shape(st, shape_type)
    ELSE [st EXCEPT !.selected_shape_idx = st.current_shape_idx]

\* The handle get_or_create_shape returns, as an index into the shapes of the
\* storage it leaves: every return is shapes[self.current_shape_idx].
returned_shape_idx(after) == after.current_shape_idx

\* get_or_create_shape takes a creating branch (create_shape) on st
creates_shape(st, shape_type) ==
    /\ Len(st.shapes) > 0
    /\ ValidIdx(st.shapes, st.current_shape_idx)
    /\ \/ At(st.shapes, st.current_shape_idx).kind /= shape_type
       \/ At(st.shapes, st.current_shape_idx).state = "Complete"

\* ShapeStorage::get_current_mut, get_selected, get_selected_mut and
\* get_highlighted: None as NoIdx, Some(shapes[idx]) as idx; each indexes
\* shapes with its cursor, which panics when the cursor is out of range.
get_current_mut(st) == IF Len(st.shapes) = 0 THEN NoIdx ELSE st.current_shape_idx

get_selected_mut(st) == st.selected_shape_idx

get_selected(st) == st.selected_shape_idx

get_highlighted(st) == st.highlighted_shape_idx

\* Faulty variant of clear: the highlighted and selected cursors are kept.
clear_keeping_cursors(st) ==
    [st EXCEPT !.current_shape_idx = 0, !.shapes = <<>>]

\* ShapeStorage::clear
clear(st) ==
    [st EXCEPT !.current_shape_idx = 0, !.highlighted_shape_idx = NoIdx,
               !.selected_shape_idx = NoIdx, !.shapes = <<>>]

\* The scan of intersect_and_highlight and intersect_and_select over shapes in
\* order: it panics at the first shape whose contains panics, unless an
\* earlier shape contains the point.
ScanPanics(ss, p) ==
    \E i \in 1..Len(ss) :
        /\ contains_panics(ss[i])
        /\ \A j \in 1..(i - 1) : ~contains_panics(ss[j]) /\ ~contains(ss[j], p)

Hit(ss, i, p) == IF contains_panics(ss[i]) THEN FALSE ELSE contains(ss[i], p)

\* The index the scan stops at, NoIdx when it runs to the end
FirstHit(ss, p) ==
    IF \E i \in 1..Len(ss) : Hit(ss, i, p)
    THEN (CHOOSE i \in 1..Len(ss) :
            Hit(ss, i, p) /\ \A j \in 1..(i - 1) : ~Hit(ss, j, p)) - 1
    ELSE NoIdx

\* ShapeStorage::intersect_and_highlight
intersect_and_highlight(st, p) ==
    IF ScanPanics(st.shapes, p) THEN Panic(st)
    ELSE [st EXCEPT !.highlighted_shape_idx = FirstHit(st.shapes, p)]

\* Faulty variant of intersect_and_select: the hit is highlighted as well.
intersect_and_select_highlighting(st, p) ==
    IF ScanPanics(st.shapes, p) THEN Panic(st)
    ELSE [st EXCEPT !.selected_shape_idx = FirstHit(st.shapes, p),
                    !.highlighted_shape_idx = FirstHit(st.shapes, p)]

\* ShapeStorage::intersect_and_select
intersect_and_select(st, p) ==
    IF ScanPanics(st.shapes, p) THEN Panic(st)
    ELSE [st EXCEPT !.selected_shape_idx = FirstHit(st.shapes, p)]

\* Faulty variant of new_shape: the highlighted cursor is kept.
new_shape_keeping_highlight(st, shape_type) ==
    LET ss == Append(st.shapes, create_helper(shape_type))
    IN  [st EXCEPT !.shapes = ss,
                   !.current_shape_idx = Len(ss) - 1,
                   !.selected_shape_idx = Len(ss) - 1]

\* ShapeStorage::new_shape
new_shape(st, shape_type) ==
    LET ss == Append(st.shapes, create_helper(shape_type))
    IN  [st EXCEPT !.shapes = ss,
                   !.current_shape_idx = Len(ss) - 1,
                   !.selected_shape_idx = Len(ss) - 1,
                   !.highlighted_shape_idx = NoIdx]

\* Faulty variant of submit_shape: the selected shape is completed whether or
\* not its points are set.
submit_shape_unchecked(st) ==
    IF st.selected_shape_idx = NoIdx THEN st
    ELSE IF ~ValidIdx(st.shapes, st.selected_shape_idx) THEN Panic(st)
    ELSE [st EXCEPT !.shapes = Put(st.shapes, st.selected_shape_idx,
                                   set_state(At(st.shapes, st.selected_shape_idx),
                                             "Complete"))]

\* ShapeStorage::submit_shape
submit_shape(st) ==
    IF st.selected_shape_idx = NoIdx THEN st
    ELSE IF ~ValidIdx(st.shapes, st.selected_shape_idx) THEN Panic(st)
    ELSE LET shape == At(st.shapes, st.selected_shape_idx)
         IN  IF is_some(get_end(shape)) /\ is_some(get_origin(shape))
             THEN [st EXCEPT !.shapes = Put(st.shapes, st.selected_shape_idx,
                                            set_state(shape, "Complete"))]
             ELSE st

\* Faulty variant of deserialize_from_json: the loaded shapes replace the
\* stored ones.
deserialize_replacing(st, json) ==
    [st EXCEPT !.shapes = deserialize_pushed(json),
               !.panicked = deserialize_panics(json)]

\* Faulty variant of deserialize_from_json: the current cursor moves to the
\* last loaded shape.
deserialize_moving_current(st, json) ==
    [st EXCEPT !.shapes = st.shapes \o deserialize_pushed(json),
               !.current_shape_idx = Len(st.shapes \o deserialize_pushed(json)) - 1,
               !.panicked = deserialize_panics(json)]

\* ShapeStorage::deserialize_from_json
deserialize_from_json(st, json) ==
    [st EXCEPT !.shapes = st.shapes \o deserialize_pushed(json),
               !.panicked = deserialize_panics(json)]

\* A method of the shape behind a mutable handle (an index get_current_mut,
\* get_selected_mut or get_or_create_shape gave out): it panics, or leaves
\* the shape `s` in that place.
through_handle(st, idx, s, panics) ==
    IF ~ValidIdx(st.shapes, idx) \/ panics THEN Panic(st)
    ELSE [st EXCEPT !.shapes = Put(st.shapes, idx, s)]

----------------------------------------------------------------------------
(* Inputs *)

\* The points the pointer supplies
Points == {<<0, 0>>, <<Unit, Unit>>}

\* The translations move_by and resize are called with
Deltas == {<<Unit, 0>>, <<-Unit, -Unit>>}

\* The strings set_prop is called with: a number, or text that does not parse
PropValues == {Some(Unit), None}

\* The keys set_prop is called with, the last one no key of any kind
PropKeyInputs ==
    {ORIGIN_X_KEY, ORIGIN_Y_KEY, END_X_KEY, END_Y_KEY, WIDTH_KEY, HEIGHT_KEY,
     RADIUS_KEY, "Colour"}

\* The points contains is asked about: on, inside and outside the shapes
ProbePoints ==
    {<<x, y>> : x \in {-Unit, 0, Unit \div 2, Unit, 2 * Unit},
                y \in {-Unit, 0, Unit \div 2, Unit, 2 * Unit}}

\* Every stored coordinate stays within 0 .. Unit, every width and height
\* within -Unit .. Unit, every radius within 0 .. the diagonal of that square.
InRangeN(n) == 0 <= n /\ n <= Unit

InRangeP(o) ==
    IF o = None THEN TRUE ELSE InRangeN(unwrap(o)[1]) /\ InRangeN(unwrap(o)[2])

InRange(s) ==
    /\ InRangeP(s.origin)
    /\ InRangeP(s.end)
    /\ InRangeN(Abs(s.width))
    /\ InRangeN(Abs(s.height))
    /\ 0 <= s.radius_sq
    /\ s.radius_sq <= 2 * Sq(Unit)

\* Documents a caller may hand to deserialize_from_json besides saved ones
LineDoc ==
    [EmptyDoc EXCEPT !.type = Some("line"), !.state = Some("Complete"),
       !.origin_x = Some(0), !.origin_y = Some(0),
       !.end_x = Some(Unit), !.end_y = Some(0)]

CircleDoc ==
    [EmptyDoc EXCEPT !.type = Some("circle"), !.state = Some("Drawing"),
       !.origin = Some(<<Unit, Unit>>), !.radius = Some(Sq(Unit))]

\* a line document with its optional points left out, still being drawn
LineNoPointsDoc == [EmptyDoc EXCEPT !.type = Some("line"), !.state = Some("Drawing")]

\* a finished line document with its origin left out
LineNoOriginDoc ==
    [EmptyDoc EXCEPT !.type = Some("line"), !.state = Some("Complete"),
       !.end_x = Some(Unit), !.end_y = Some(0)]

TriangleDoc ==
    [EmptyDoc EXCEPT !.type = Some("triangle"), !.state = Some("New")]

\* Documents that leave out a field of their kind
RectangleNoExtentDoc ==
    [EmptyDoc EXCEPT !.type = Some("rectangle"), !.state = Some("Complete"),
       !.origin_x = Some(0), !.origin_y = Some(0)]

CircleNoRadiusDoc ==
    [EmptyDoc EXCEPT !.type = Some("circle"), !.state = Some("Drawing"),
       !.origin = Some(<<0, 0>>)]

LineNoStateDoc ==
    [EmptyDoc EXCEPT !.type = Some("line"),
       !.origin_x = Some(0), !.origin_y = Some(0),
       !.end_x = Some(Unit), !.end_y = Some(0)]

IncompleteDocs == {RectangleNoExtentDoc, CircleNoRadiusDoc, LineNoStateDoc}

CraftedTexts ==
    { ArrayText(<<>>),
      ArrayText(<<LineDoc, CircleDoc>>),
      ArrayText(<<LineNoPointsDoc>>),
      ArrayText(<<LineNoOriginDoc>>),
      ArrayText(<<TriangleDoc>>),
      ArrayText(<<LineDoc, TriangleDoc>>) }

----------------------------------------------------------------------------
(* The program: the storage, and one handler at a time with any input *)

Self ==
    [shapes |-> shapes, current_shape_idx |-> current_shape_idx,
     highlighted_shape_idx |-> highlighted_shape_idx,
     selected_shape_idx |-> selected_shape_idx, panicked |-> panicked]

\* The four modes of the editor
Mode == {"Draw", "Select", "Resize", "Move"}

\* App::create
create ==
    [shape_type |-> "Line", shape_storage |-> new, mode |-> "Draw",
     is_dragging |-> FALSE, last_cursor_pos |-> <<0, 0>>, resize_anchor |-> <<0, 0>>]

Init ==
    /\ shapes = create.shape_storage.shapes
    /\ current_shape_idx = create.shape_storage.current_shape_idx
    /\ highlighted_shape_idx = create.shape_storage.highlighted_shape_idx
    /\ selected_shape_idx = create.shape_storage.selected_shape_idx
    /\ panicked = create.shape_storage.panicked
    /\ app_shape_type = create.shape_type
    /\ mode = create.mode
    /\ is_dragging = create.is_dragging
    /\ last_cursor_pos = create.last_cursor_pos
    /\ resize_anchor = create.resize_anchor

\* A method of the storage runs (none runs after a panic) and leaves the
\* storage st; the model follows it while the collection holds at most cap
\* shapes, all within the coordinate range.
Becomes(cap, st) ==
    /\ ~panicked
    /\ Len(st.shapes) <= cap
    /\ \A i \in 1..Len(st.shapes) : InRange(st.shapes[i])
    /\ shapes' = st.shapes
    /\ current_shape_idx' = st.current_shape_idx
    /\ highlighted_shape_idx' = st.highlighted_shape_idx
    /\ selected_shape_idx' = st.selected_shape_idx
    /\ panicked' = st.panicked
    /\ UNCHANGED app_fields

\* The mutable handles the storage gives out
Handles(st) == {get_current_mut(st), get_selected_mut(st)} \ {NoIdx}

\* The shape behind a handle
Target(idx) ==
    IF ValidIdx(shapes, idx) THEN At(shapes, idx) ELSE create_helper("Line")

GetOrCreateShape(cap, shape_type) == Becomes(cap, get_or_create_shape(Self, shape_type))

NewShape(cap, shape_type) == Becomes(cap, new_shape(Self, shape_type))

Clear(cap) == Becomes(cap, clear(Self))

IntersectAndHighlight(cap, p) == Becomes(cap, intersect_and_highlight(Self, p))

IntersectAndSelect(cap, p) == Becomes(cap, intersect_and_select(Self, p))

SubmitShape(cap) == Becomes(cap, submit_shape(Self))

\* serialize_to_json returns the text and writes nothing
SerializeToJson(cap) ==
    Becomes(cap, IF serialize_panics(shapes) THEN Panic(Self) ELSE Self)

\* deserialize_from_json is called with what serialize_to_json returns now,
\* or with a crafted text
JsonTexts ==
    CraftedTexts \cup
    (IF serialize_panics(shapes) THEN {} ELSE {serialize_to_json(shapes)})

DeserializeFromJson(cap, json) == Becomes(cap, deserialize_from_json(Self, json))

AddPoint(cap, idx, p) ==
    Becomes(cap, through_handle(Self, idx, add_point(Target(idx), p), FALSE))

SetEnd(cap, idx, p) ==
    Becomes(cap, through_handle(Self, idx,
                                IF set_end_panics(Target(idx)) THEN Target(idx)
                                ELSE set_end(Target(idx), p),
                                set_end_panics(Target(idx))))

SetProp(cap, idx, key, value) ==
    Becomes(cap, through_handle(Self, idx,
                                IF set_prop_panics(Target(idx), key, value)
                                THEN Target(idx)
                                ELSE set_prop(Target(idx), key, value),
                                set_prop_panics(Target(idx), key, value)))

MoveBy(cap, idx, d) ==
    Becomes(cap, through_handle(Self, idx, move_by(Target(idx), d), FALSE))

Resize(cap, idx, change, anchor) ==
    Becomes(cap, through_handle(Self, idx, resize(Target(idx), change, anchor), FALSE))

\* Drawing, hit-testing, saving and loading
Next ==
    \/ \E k \in ShapeType : GetOrCreateShape(MaxShapes, k)
    \/ \E k \in ShapeType : NewShape(MaxShapes, k)
    \/ Clear(MaxShapes)
    \/ \E p \in Points : IntersectAndHighlight(MaxShapes, p)
    \/ \E p \in Points : IntersectAndSelect(MaxShapes, p)
    \/ SubmitShape(MaxShapes)
    \/ SerializeToJson(MaxShapes)
    \/ \E idx \in Handles(Self), p \in Points : AddPoint(MaxShapes, idx, p)
    \/ \E json \in JsonTexts : DeserializeFromJson(MaxShapes, json)

Spec == Init /\ [][Next]_vars

\* Drawing and hit-testing, and editing: properties, moves and resizes
NextEdit ==
    \/ \E k \in ShapeType : GetOrCreateShape(MaxEdited, k)
    \/ \E k \in ShapeType : NewShape(MaxEdited, k)
    \/ Clear(MaxEdited)
    \/ \E p \in Points : IntersectAndSelect(MaxEdited, p)
    \/ SubmitShape(MaxEdited)
    \/ \E idx \in Handles(Self), p \in Points : AddPoint(MaxEdited, idx, p)
    \/ \E idx \in Handles(Self), p \in Points : SetEnd(MaxEdited, idx, p)
    \/ \E idx \in Handles(Self), key \in PropKeyInputs, value \in PropValues :
          SetProp(MaxEdited, idx, key, value)
    \/ \E idx \in Handles(Self), d \in Deltas : MoveBy(MaxEdited, idx, d)
    \/ \E idx \in Handles(Self), d \in Deltas, p \in Points :
          Resize(MaxEdited, idx, d, p)

SpecEdit == Init /\ [][NextEdit]_vars

\* Drawing and hit-testing, without loading
NextDraw ==
    \/ \E k \in ShapeType : GetOrCreateShape(MaxShapes, k)
    \/ \E k \in ShapeType : NewShape(MaxShapes, k)
    \/ Clear(MaxShapes)
    \/ \E p \in Points : IntersectAndHighlight(MaxShapes, p)
    \/ \E p \in Points : IntersectAndSelect(MaxShapes, p)
    \/ SubmitShape(MaxShapes)
    \/ \E idx \in Handles(Self), p \in Points : AddPoint(MaxShapes, idx, p)

SpecDraw == Init /\ [][NextDraw]_vars

\* Drawing and hit-testing, and loading crafted texts
NextLoad ==
    \/ \E k \in ShapeType : GetOrCreateShape(MaxShapes, k)
    \/ \E p \in Points : IntersectAndHighlight(MaxShapes, p)
    \/ \E p \in Points : IntersectAndSelect(MaxShapes, p)
    \/ \E idx \in Handles(Self), p \in Points : AddPoint(MaxShapes, idx, p)
    \/ \E json \in CraftedTexts : DeserializeFromJson(MaxShapes, json)

SpecLoad == Init /\ [][NextLoad]_vars

\* One shape, as new_shape leaves it on a new storage, under the methods of
\* the Shape trait
InitShape ==
    \E k \in ShapeType :
        /\ shapes = new_shape(new, k).shapes
        /\ current_shape_idx = new_shape(new, k).current_shape_idx
        /\ highlighted_shape_idx = new_shape(new, k).highlighted_shape_idx
        /\ selected_shape_idx = new_shape(new, k).selected_shape_idx
        /\ panicked = FALSE
        /\ app_shape_type = k
        /\ mode = create.mode
        /\ is_dragging = create.is_dragging
        /\ last_cursor_pos = create.last_cursor_pos
        /\ resize_anchor = create.resize_anchor

NextShape ==
    \/ SubmitShape(MaxEdited)
    \/ \E idx \in Handles(Self), p \in Points : AddPoint(MaxEdited, idx, p)
    \/ \E idx \in Handles(Self), p \in Points : SetEnd(MaxEdited, idx, p)
    \/ \E idx \in Handles(Self), key \in PropKeyInputs, value \in PropValues :
          SetProp(MaxEdited, idx, key, value)
    \/ \E idx \in Handles(Self), d \in Deltas : MoveBy(MaxEdited, idx, d)
    \/ \E idx \in Handles(Self), d \in Deltas, p \in Points :
          Resize(MaxEdited, idx, d, p)

SpecShape == InitShape /\ [][NextShape]_vars

----------------------------------------------------------------------------
(* The editor: App::update, one operator per message, from the App it is   *)
(* sent to to the App it leaves                                            *)

App ==
    [shape_type |-> app_shape_type, shape_storage |-> Self, mode |-> mode,
     is_dragging |-> is_dragging, last_cursor_pos |-> last_cursor_pos,
     resize_anchor |-> resize_anchor]

\* The shape behind a handle of the storage st
handle_shape(st, idx) ==
    IF ValidIdx(st.shapes, idx) THEN At(st.shapes, idx) ELSE create_helper("Line")

\* Msg::ShapeChanged
update_ShapeChanged(app, k) == [app EXCEPT !.shape_type = k]

\* Msg::MouseClicked
update_MouseClicked(app, p) ==
    IF app.mode = "Draw" THEN
        LET st == get_or_create_shape(app.shape_storage, app.shape_type)
            idx == returned_shape_idx(st)
        IN  IF st.panicked THEN [app EXCEPT !.shape_storage = st]
            ELSE [app EXCEPT !.shape_storage =
                     through_handle(st, idx, add_point(handle_shape(st, idx), p), FALSE)]
    ELSE [app EXCEPT !.shape_storage = intersect_and_select(app.shape_storage, p)]

\* Faulty variant of the MouseMove branch: in Draw mode the end follows the
\* pointer whatever the state of the current shape.
update_MouseMove_any_state(app, p) ==
    LET st == app.shape_storage
        change == <<p[1] - app.last_cursor_pos[1], p[2] - app.last_cursor_pos[2]>>
    IN  IF app.mode = "Draw" THEN
            LET idx == get_current_mut(st)
                shape == handle_shape(st, idx)
            IN  IF idx = NoIdx THEN app
                ELSE IF ~ValidIdx(st.shapes, idx) THEN [app EXCEPT !.shape_storage = Panic(st)]
                ELSE [app EXCEPT !.shape_storage =
                         through_handle(st, idx,
                                        IF set_end_panics(shape) THEN shape
                                        ELSE set_end(shape, p),
                                        set_end_panics(shape))]
        ELSE IF app.mode = "Select" THEN
            [app EXCEPT !.shape_storage = intersect_and_highlight(st, p)]
        ELSE IF ~app.is_dragging THEN
            [app EXCEPT !.shape_storage = intersect_and_highlight(st, p)]
        ELSE LET idx == get_selected_mut(st)
                 shape == handle_shape(st, idx)
             IN  IF idx = NoIdx THEN app
                 ELSE IF ~ValidIdx(st.shapes, idx) THEN
                     [app EXCEPT !.shape_storage = Panic(st)]
                 ELSE IF app.mode = "Resize" THEN
                     [app EXCEPT !.shape_storage =
                                     through_handle(st, idx,
                                                    resize(shape, change, app.resize_anchor),
                                                    FALSE),
                                 !.last_cursor_pos = p,
                                 !.resize_anchor = p]
                 ELSE
                     [app EXCEPT !.shape_storage =
                                     through_handle(st, idx, move_by(shape, change), FALSE),
                                 !.last_cursor_pos = p]

\* Msg::MouseMove
update_MouseMove(app, p) ==
    LET st == app.shape_storage
        change == <<p[1] - app.last_cursor_pos[1], p[2] - app.last_cursor_pos[2]>>
    IN  IF app.mode = "Draw" THEN
            LET idx == get_current_mut(st)
                shape == handle_shape(st, idx)
            IN  IF idx = NoIdx THEN app
                ELSE IF ~ValidIdx(st.shapes, idx) THEN [app EXCEPT !.shape_storage = Panic(st)]
                ELSE IF shape.state /= "Drawing" THEN app
                ELSE [app EXCEPT !.shape_storage =
                         through_handle(st, idx,
                                        IF set_end_panics(shape) THEN shape
                                        ELSE set_end(shape, p),
                                        set_end_panics(shape))]
        ELSE IF app.mode = "Select" THEN
            [app EXCEPT !.shape_storage = intersect_and_highlight(st, p)]
        ELSE IF ~app.is_dragging THEN
            [app EXCEPT !.shape_storage = intersect_and_highlight(st, p)]
        ELSE LET idx == get_selected_mut(st)
                 shape == handle_shape(st, idx)
             IN  IF idx = NoIdx THEN app
                 ELSE IF ~ValidIdx(st.shapes, idx) THEN
                     [app EXCEPT !.shape_storage = Panic(st)]
                 ELSE IF app.mode = "Resize" THEN
                     [app EXCEPT !.shape_storage =
                                     through_handle(st, idx,
                                                    resize(shape, change, app.resize_anchor),
                                                    FALSE),
                                 !.last_cursor_pos = p,
                                 !.resize_anchor = p]
                 ELSE
                     [app EXCEPT !.shape_storage =
                                     through_handle(st, idx, move_by(shape, change), FALSE),
                                 !.last_cursor_pos = p]

\* Msg::ClearScreen
update_ClearScreen(app) == [app EXCEPT !.shape_storage = clear(app.shape_storage)]

\* Msg::ModeChanged
update_ModeChanged(app, m) == [app EXCEPT !.mode = m]

\* Msg::ValueChanged
update_ValueChanged(app, key, value) ==
    LET st == app.shape_storage
        idx == get_selected_mut(st)
        shape == handle_shape(st, idx)
    IN  IF idx = NoIdx THEN app
        ELSE [app EXCEPT !.shape_storage =
                 through_handle(st, idx,
                                IF set_prop_panics(shape, key, value) THEN shape
                                ELSE set_prop(shape, key, value),
                                set_prop_panics(shape, key, value))]

\* Msg::MouseUp
update_MouseUp(app, p) ==
    IF app.mode \in {"Resize", "Move"}
    THEN [app EXCEPT !.is_dragging = FALSE, !.last_cursor_pos = p, !.resize_anchor = p]
    ELSE app

\* Faulty variant of the MouseDown branch: the pointer position is not
\* recorded.
update_MouseDown_keeping_pos(app, p) ==
    IF app.mode \in {"Resize", "Move"}
    THEN [app EXCEPT !.is_dragging = TRUE]
    ELSE app

\* Msg::MouseDown
update_MouseDown(app, p) ==
    IF app.mode \in {"Resize", "Move"}
    THEN [app EXCEPT !.is_dragging = TRUE, !.last_cursor_pos = p, !.resize_anchor = p]
    ELSE app

\* Msg::NewShape
update_NewShape(app) ==
    [app EXCEPT !.shape_storage = new_shape(app.shape_storage, app.shape_type)]

\* Msg::SubmitShape
update_SubmitShape(app) == [app EXCEPT !.shape_storage = submit_shape(app.shape_storage)]

\* Msg::SaveToJson
update_SaveToJson(app) ==
    IF serialize_panics(app.shape_storage.shapes)
    THEN [app EXCEPT !.shape_storage = Panic(app.shape_storage)]
    ELSE app

\* Msg::LoadFromJson
update_LoadFromJson(app, value) ==
    [app EXCEPT !.shape_storage = deserialize_from_json(app.shape_storage, value)]

\* App::update handles a message (none after a panic) and leaves the App a;
\* the model follows it while the collection holds at most MaxEdited shapes,
\* all within the coordinate range.
Updates(a) ==
    /\ ~panicked
    /\ Len(a.shape_storage.shapes) <= MaxEdited
    /\ \A i \in 1..Len(a.shape_storage.shapes) : InRange(a.shape_storage.shapes[i])
    /\ shapes' = a.shape_storage.shapes
    /\ current_shape_idx' = a.shape_storage.current_shape_idx
    /\ highlighted_shape_idx' = a.shape_storage.highlighted_shape_idx
    /\ selected_shape_idx' = a.shape_storage.selected_shape_idx
    /\ panicked' = a.shape_storage.panicked
    /\ app_shape_type' = a.shape_type
    /\ mode' = a.mode
    /\ is_dragging' = a.is_dragging
    /\ last_cursor_pos' = a.last_cursor_pos
    /\ resize_anchor' = a.resize_anchor

ShapeChanged(k) == Updates(update_ShapeChanged(App, k))

MouseClicked(p) == Updates(update_MouseClicked(App, p))

MouseMove(p) == Updates(update_MouseMove(App, p))

ClearScreen == Updates(update_ClearScreen(App))

ModeChanged(m) == Updates(update_ModeChanged(App, m))

ValueChanged(key, value) == Updates(update_ValueChanged(App, key, value))

MouseUp(p) == Updates(update_MouseUp(App, p))

MouseDown(p) == Updates(update_MouseDown(App, p))

NewShapeMsg == Updates(update_NewShape(App))

SubmitShapeMsg == Updates(update_SubmitShape(App))

SaveToJson == Updates(update_SaveToJson(App))

LoadFromJson(value) == Updates(update_LoadFromJson(App, value))

\* The editor under any sequence of messages.  Msg::JsonChanged assigns
\* App.json only and Msg::None does nothing: neither changes a field here.
NextApp ==
    \/ \E k \in ShapeType : ShapeChanged(k)
    \/ \E p \in Points : MouseClicked(p)
    \/ \E p \in Points : MouseMove(p)
    \/ ClearScreen
    \/ \E m \in Mode : ModeChanged(m)
    \/ \E key \in PropKeyInputs, value \in PropValues : ValueChanged(key, value)
    \/ \E p \in Points : MouseUp(p)
    \/ \E p \in Points : MouseDown(p)
    \/ NewShapeMsg
    \/ SubmitShapeMsg
    \/ SaveToJson
    \/ \E value \in JsonTexts : LoadFromJson(value)

SpecApp == Init /\ [][NextApp]_vars

----------------------------------------------------------------------------
(* Properties *)

\* Every shape-kind tag of a document names one of the three kinds
KnownTypes(docs) ==
    \A i \in 1..Len(docs) :
        is_some(docs[i].type) /\ unwrap(docs[i].type) \in {"line", "rectangle", "circle"}

\* C1: whenever get_or_create_shape(kind) takes a creating branch, exactly one
\* shape is appended, current_shape_idx becomes the index of the appended
\* shape (length - 1), and the returned handle is that appended shape: of the
\* requested kind, New, without geometry.
C1_CreatingBranchReturnsAppended ==
    \A k \in ShapeType :
        (~panicked /\ creates_shape(Self, k)) =>
            LET after == get_or_create_shape(Self, k)
            IN  /\ ~after.panicked
                /\ after.shapes = Append(shapes, create_helper(k))
                /\ after.current_shape_idx = Len(after.shapes) - 1
                /\ returned_shape_idx(after) = Len(after.shapes) - 1
                /\ At(after.shapes, returned_shape_idx(after)) = create_helper(k)

\* C2: on an empty collection get_or_create_shape(k) pushes the shape at index
\* 0; while the collection holds that one shape, of kind k and not Complete,
\* get_or_create_shape(k) returns it again (index 0) and appends nothing; once
\* it is Complete, get_or_create_shape(k) appends a new shape and returns it,
\* at index 1.
C2_ReuseUntilComplete ==
    \A k \in ShapeType :
        LET after == get_or_create_shape(Self, k)
        IN  /\ (~panicked /\ Len(shapes) = 0) =>
                  /\ ~after.panicked
                  /\ after.shapes = <<create_helper(k)>>
                  /\ returned_shape_idx(after) = 0
            /\ (~panicked /\ Len(shapes) = 1 /\ shapes[1].kind = k
                    /\ shapes[1].state /= "Complete") =>
                  /\ ~after.panicked
                  /\ after.shapes = shapes
                  /\ returned_shape_idx(after) = 0
            /\ (~panicked /\ Len(shapes) = 1 /\ shapes[1].kind = k
                    /\ shapes[1].state = "Complete") =>
                  /\ ~after.panicked
                  /\ after.shapes = Append(shapes, create_helper(k))
                  /\ returned_shape_idx(after) = 1

\* get_or_create_shape has handed out shape 0 twice, shape 0 has become
\* Complete, and the next call has appended shape 1 and made it current.
C2_Witness ==
    /\ ~panicked
    /\ Len(shapes) = 2
    /\ shapes[1].kind = "Line"
    /\ shapes[1].state = "Complete"
    /\ shapes[2] = create_helper("Line")
    /\ selected_shape_idx = 0
    /\ current_shape_idx = 1

\* C3: highlighted_shape_idx and selected_shape_idx are each None or smaller
\* than the number of shapes, and current_shape_idx is smaller than the
\* number of shapes whenever there are shapes; so get_current_mut,
\* get_selected, get_selected_mut and get_highlighted return None when there
\* are no shapes or the cursor is None, and never index out of range.
C3_IndicesValid ==
    /\ highlighted_shape_idx = NoIdx \/ ValidIdx(shapes, highlighted_shape_idx)
    /\ selected_shape_idx = NoIdx \/ ValidIdx(shapes, selected_shape_idx)
    /\ Len(shapes) > 0 => ValidIdx(shapes, current_shape_idx)
    /\ \A got \in {get_current_mut(Self), get_selected(Self), get_selected_mut(Self),
                   get_highlighted(Self)} :
          /\ got = NoIdx \/ ValidIdx(shapes, got)
          /\ Len(shapes) = 0 => got = NoIdx

\* Two shapes have been loaded, the second is highlighted and the first selected.
C3_Witness ==
    /\ ~panicked
    /\ Len(shapes) = 2
    /\ highlighted_shape_idx = 1
    /\ selected_shape_idx = 0
    /\ current_shape_idx = 0

\* C4: deserialize_from_json of an array with an element whose type is none of
\* line, rectangle, circle reports a failure without aborting, and leaves the
\* shapes and the three cursors as they were, also when valid documents come
\* before the bad element.
C4_UnknownKindLeavesStorage ==
    \A json \in CraftedTexts :
        (~panicked /\ WellFormedArray(json) /\ ~KnownTypes(ArrayDocs(json))) =>
            LET after == deserialize_from_json(Self, json)
            IN  /\ ~after.panicked
                /\ after.shapes = shapes
                /\ after.current_shape_idx = current_shape_idx
                /\ after.highlighted_shape_idx = highlighted_shape_idx
                /\ after.selected_shape_idx = selected_shape_idx

\* C5: for every shape of the collection, whatever its kind and state,
\* get_json completes, and from_json of that document on a fresh shape of the
\* same kind completes and gives a shape equal to it in kind, state and
\* geometry.
C5_DocumentRoundTrip ==
    \A i \in 1..Len(shapes) :
        LET s == shapes[i]
        IN  IF get_json_panics(s) THEN FALSE
            ELSE IF from_json_panics(create_helper(s.kind), get_json(s)) THEN FALSE
            ELSE from_json(create_helper(s.kind), get_json(s)) = s

\* C6: serialize_to_json of a collection of n >= 0 shapes is a well-formed
\* JSON array of n documents in order, and deserialize_from_json of it on an
\* empty storage gives the same n shapes in the same order.
C6_CollectionRoundTrip ==
    (~panicked /\ ~serialize_panics(shapes)) =>
        LET json == serialize_to_json(shapes)
        IN  /\ WellFormedArray(json)
            /\ Len(ArrayDocs(json)) = Len(shapes)
            /\ ~deserialize_from_json(new, json).panicked
            /\ deserialize_from_json(new, json).shapes = shapes

\* C7: serialize_to_json completes in every reachable state of the storage,
\* also when a shape is New and its origin has never been set.
C7_SerializeCompletes == ~panicked => ~serialize_panics(shapes)

\* The place of a state in the life cycle New, Drawing, Complete
StateRank(state) ==
    CASE state = "New" -> 0
      [] state = "Drawing" -> 1
      [] state = "Complete" -> 2

\* C8: no drawing or editing operation takes a shape's state from Complete to
\* Drawing or New, or from Drawing to New.
C8_NoStateRegression ==
    [][\A i \in 1..Len(shapes) :
          i <= Len(shapes') => StateRank(shapes'[i].state) >= StateRank(shapes[i].state)]_vars

\* A Complete circle whose radius is one only set_prop or resize gives it.
C8_Witness ==
    /\ ~panicked
    /\ Len(shapes) = 1
    /\ shapes[1].kind = "Circle"
    /\ shapes[1].state = "Complete"
    /\ shapes[1].radius_sq = Sq(Unit)

\* C9: every shape whose origin is unset is New.
C9_OriginUnsetOnlyInNew ==
    ~panicked => \A i \in 1..Len(shapes) : shapes[i].origin = None => shapes[i].state = "New"

\* C10: add_point(p1) on a fresh shape sets origin = p1 and state = Drawing;
\* a following add_point(p2) keeps origin = p1, sets the end as set_end(p2)
\* does (Line: end = p2; Rectangle: width = p2.x - p1.x and
\* height = p2.y - p1.y, signed; Circle: radius^2 = |p2 - p1|^2) and sets
\* state = Complete.
C10_AddPointTwice ==
    \A i \in 1..Len(shapes), p1 \in Points, p2 \in Points :
        (shapes[i].origin = None /\ shapes[i].state = "New") =>
            LET s == shapes[i]
                first == add_point(s, p1)
                second == add_point(first, p2)
            IN  /\ first = [s EXCEPT !.origin = Some(p1), !.state = "Drawing"]
                /\ second.origin = Some(p1)
                /\ second.state = "Complete"
                /\ second.kind = s.kind
                /\ s.kind = "Line" =>
                      second = [first EXCEPT !.end = Some(p2), !.state = "Complete"]
                /\ s.kind = "Rectangle" =>
                      second = [first EXCEPT !.width = p2[1] - p1[1],
                                             !.height = p2[2] - p1[2],
                                             !.state = "Complete"]
                /\ s.kind = "Circle" =>
                      second = [first EXCEPT
                                  !.radius_sq = Sq(p2[1] - p1[1]) + Sq(p2[2] - p1[2]),
                                  !.state = "Complete"]

\* A fresh rectangle next to one drawn from (Unit, Unit) back to (0, 0).
C10_Witness ==
    /\ ~panicked
    /\ Len(shapes) = 2
    /\ shapes[1] = [create_helper("Rectangle") EXCEPT
                      !.origin = Some(<<Unit, Unit>>), !.width = -Unit,
                      !.height = -Unit, !.state = "Complete"]
    /\ shapes[2] = create_helper("Rectangle")

\* C11: set_prop with a key of the shape's kind and a value that does not
\* parse as a number does not abort, and leaves the shape as it was.
C11_UnparsedValueLeavesShape ==
    ~panicked =>
        \A idx \in Handles(Self), key \in PropKeyInputs :
            (ValidIdx(shapes, idx) /\ key \in PropKeys(Target(idx).kind)) =>
                LET after == through_handle(Self, idx, Target(idx),
                                            set_prop_panics(Target(idx), key, None))
                IN  ~after.panicked /\ after.shapes = shapes

\* A document leaves out a field its kind requires: a rectangle its width or
\* height, a circle its origin or radius, any kind its state.
LacksRequiredField(doc) ==
    \/ doc.state = None
    \/ doc.type = Some("rectangle") /\ (doc.width = None \/ doc.height = None)
    \/ doc.type = Some("circle") /\ (doc.origin = None \/ doc.radius = None)

\* C12: deserialize_from_json of a document that lacks a field required for
\* its kind adds no shape to the collection.
C12_IncompleteDocumentAddsNothing ==
    ~panicked =>
        \A doc \in IncompleteDocs :
            LacksRequiredField(doc) =>
                deserialize_from_json(Self, ArrayText(<<doc>>)).shapes = shapes

\* The lowest index whose shape contains p, NoIdx when no shape does
LowestContaining(p) ==
    IF \E i \in 1..Len(shapes) : contains(shapes[i], p)
    THEN (CHOOSE i \in 1..Len(shapes) :
            contains(shapes[i], p) /\ \A j \in 1..(i - 1) : ~contains(shapes[j], p)) - 1
    ELSE NoIdx

\* C13: intersect_and_select (intersect_and_highlight) sets
\* selected_shape_idx (highlighted_shape_idx) to the lowest index whose shape
\* contains the point, and to None when no shape contains it, whatever the
\* cursor held before.
C13_LowestContainingWins ==
    ~panicked =>
        \A p \in Points :
            /\ ~intersect_and_select(Self, p).panicked
            /\ ~intersect_and_highlight(Self, p).panicked
            /\ intersect_and_select(Self, p).selected_shape_idx = LowestContaining(p)
            /\ intersect_and_highlight(Self, p).highlighted_shape_idx = LowestContaining(p)

\* The end-equivalent point of a shape is defined: a Line's end, a
\* Rectangle's or Circle's point derived from its origin.
EndDefined(s) == IF s.kind = "Line" THEN s.end /= None ELSE s.origin /= None

\* C14: submit_shape sets the selected shape's state to Complete exactly when
\* a shape is selected and its origin and its end-equivalent point are both
\* defined, and changes nothing otherwise; the shape's geometry, every other
\* shape, the number of shapes and the three cursors are unchanged.
C14_SubmitCompletesSelected ==
    ~panicked =>
        LET after == submit_shape(Self)
        IN  /\ ~after.panicked
            /\ after.current_shape_idx = current_shape_idx
            /\ after.highlighted_shape_idx = highlighted_shape_idx
            /\ after.selected_shape_idx = selected_shape_idx
            /\ Len(after.shapes) = Len(shapes)
            /\ \A i \in 1..Len(shapes) :
                  after.shapes[i] =
                      IF /\ i - 1 = selected_shape_idx
                         /\ shapes[i].origin /= None
                         /\ EndDefined(shapes[i])
                      THEN [shapes[i] EXCEPT !.state = "Complete"]
                      ELSE shapes[i]

\* The selected circle has its origin and no radius yet, and is Complete.
C14_Witness ==
    /\ ~panicked
    /\ Len(shapes) = 1
    /\ selected_shape_idx = 0
    /\ shapes[1] = [create_helper("Circle") EXCEPT
                      !.origin = Some(<<Unit, Unit>>), !.state = "Complete"]

\* C15: new_shape(kind) appends exactly one shape of that kind in state New,
\* sets current_shape_idx and selected_shape_idx to the new last index, sets
\* highlighted_shape_idx to None, and leaves the shapes stored before as they
\* were.
C15_NewShapeAppendsAndSelects ==
    ~panicked =>
        \A k \in ShapeType :
            LET after == new_shape(Self, k)
            IN  /\ ~after.panicked
                /\ after.shapes = Append(shapes, create_helper(k))
                /\ after.current_shape_idx = Len(shapes)
                /\ after.selected_shape_idx = Len(shapes)
                /\ after.highlighted_shape_idx = NoIdx

\* A new circle has been appended behind a circle that is still being drawn.
C15_Witness ==
    /\ ~panicked
    /\ Len(shapes) = 2
    /\ shapes[1].kind = "Circle"
    /\ shapes[1].state = "Drawing"
    /\ shapes[2] = create_helper("Circle")
    /\ current_shape_idx = 1
    /\ selected_shape_idx = 1
    /\ highlighted_shape_idx = NoIdx

\* No method of a shape changes its kind.
ShapeOpsKeepKind ==
    \A i \in 1..Len(shapes) :
        LET s == shapes[i]
        IN  /\ \A p \in Points :
                  /\ add_point(s, p).kind = s.kind
                  /\ set_end_panics(s) \/ set_end(s, p).kind = s.kind
            /\ \A key \in PropKeyInputs, value \in PropValues :
                  set_prop_panics(s, key, value) \/ set_prop(s, key, value).kind = s.kind
            /\ \A d \in Deltas :
                  /\ move_by(s, d).kind = s.kind
                  /\ \A p \in Points : resize(s, d, p).kind = s.kind
            /\ set_state(s, "Complete").kind = s.kind

\* C16: apart from clear, no operation removes or reorders shapes or changes
\* a shape's kind: the number of shapes never decreases and every index keeps
\* a shape of the same kind.
C16_AppendOnly ==
    /\ [][\/ Clear(MaxShapes)
          \/ /\ Len(shapes') >= Len(shapes)
             /\ \A i \in 1..Len(shapes) : shapes'[i].kind = shapes[i].kind]_vars
    /\ []ShapeOpsKeepKind

\* A line has been loaded behind a rectangle that was there before.
C16_Witness ==
    /\ ~panicked
    /\ Len(shapes) = 2
    /\ shapes[1].kind = "Rectangle"
    /\ shapes[2] = element_shape(LineNoPointsDoc)

\* C17: for a Circle with origin set, resize(change, anchor) sets the radius
\* to the magnitude of anchor - origin + change and leaves origin and state
\* as they were; with origin unset it changes nothing.
C17_CircleResizeFromAnchor ==
    \A i \in 1..Len(shapes), change \in Deltas, anchor \in Points :
        shapes[i].kind = "Circle" =>
            LET s == shapes[i]
            IN  resize(s, change, anchor) =
                    IF s.origin = None THEN s
                    ELSE [s EXCEPT !.radius_sq =
                            Sq(anchor[1] - unwrap(s.origin)[1] + change[1])
                            + Sq(anchor[2] - unwrap(s.origin)[2] + change[2])]

\* A coordinate lies within the tolerance of another
WithinTolerance(a, b) == Abs(a - b) < Tolerance

\* The normalized bounds of a rectangle with origin set
Left(s) == IF s.width > 0 THEN unwrap(s.origin)[1] ELSE unwrap(s.origin)[1] + s.width

Right(s) == IF s.width > 0 THEN unwrap(s.origin)[1] + s.width ELSE unwrap(s.origin)[1]

Top(s) == IF s.height > 0 THEN unwrap(s.origin)[2] ELSE unwrap(s.origin)[2] + s.height

Bottom(s) == IF s.height > 0 THEN unwrap(s.origin)[2] + s.height ELSE unwrap(s.origin)[2]

\* The corners and the edges of the normalized bounds the anchor is near
MatchingCorners(s, anchor) ==
    {c \in {"top left", "top right", "bottom left", "bottom right"} :
        /\ WithinTolerance(anchor[1],
                           IF c \in {"top left", "bottom left"} THEN Left(s) ELSE Right(s))
        /\ WithinTolerance(anchor[2],
                           IF c \in {"top left", "top right"} THEN Top(s) ELSE Bottom(s))}

MatchingEdges(s, anchor) ==
    {e \in {"left", "right", "top", "bottom"} :
        CASE e = "left" -> WithinTolerance(anchor[1], Left(s))
          [] e = "right" -> WithinTolerance(anchor[1], Right(s))
          [] e = "top" -> WithinTolerance(anchor[2], Top(s))
          [] e = "bottom" -> WithinTolerance(anchor[2], Bottom(s))}

\* The adjustment of a corner or an edge: left and top move the origin and
\* shrink the extent, right and bottom grow the extent.
Adjusted(s, part, change) ==
    LET o == unwrap(s.origin)
        movesX == part \in {"top left", "bottom left", "left"}
        growsX == part \in {"top right", "bottom right", "right"}
        movesY == part \in {"top left", "top right", "top"}
        growsY == part \in {"bottom left", "bottom right", "bottom"}
    IN  [s EXCEPT
           !.origin = Some(<<IF movesX THEN o[1] + change[1] ELSE o[1],
                             IF movesY THEN o[2] + change[2] ELSE o[2]>>),
           !.width = IF movesX THEN s.width - change[1]
                     ELSE IF growsX THEN s.width + change[1] ELSE s.width,
           !.height = IF movesY THEN s.height - change[2]
                      ELSE IF growsY THEN s.height + change[2] ELSE s.height]

\* C18: for a Rectangle with origin set, resize(change, anchor) applies the
\* adjustment of one corner the anchor is near whenever there is such a
\* corner, whatever edges it is near as well; of one edge it is near when it
\* is near no corner; and leaves origin, width and height as they were when
\* it is near neither.  The state is never changed.
C18_CornersBeforeEdges ==
    \A i \in 1..Len(shapes), change \in Deltas, anchor \in Points :
        (shapes[i].kind = "Rectangle" /\ shapes[i].origin /= None) =>
            LET s == shapes[i]
                r == resize(s, change, anchor)
                corners == MatchingCorners(s, anchor)
                edges == MatchingEdges(s, anchor)
            IN  /\ r.state = s.state
                /\ corners /= {} => \E c \in corners : r = Adjusted(s, c, change)
                /\ (corners = {} /\ edges /= {}) => \E e \in edges : r = Adjusted(s, e, change)
                /\ (corners = {} /\ edges = {}) => r = s

\* A Complete rectangle whose top left corner has been dragged to the right.
C18_Witness ==
    /\ ~panicked
    /\ Len(shapes) = 1
    /\ shapes[1] = [create_helper("Rectangle") EXCEPT
                      !.origin = Some(<<Unit, 0>>), !.width = 0, !.height = Unit,
                      !.state = "Complete"]

\* An endpoint after Line::resize: translated when it is set and within the
\* tolerance of the anchor on both axes, else as it was
ResizedEndpoint(o, change, anchor) ==
    IF o = None THEN None
    ELSE IF WithinTolerance(unwrap(o)[1], anchor[1]) /\ WithinTolerance(unwrap(o)[2], anchor[2])
    THEN Some(<<unwrap(o)[1] + change[1], unwrap(o)[2] + change[2]>>)
    ELSE o

\* C19: for a Line, resize(change, anchor) decides each endpoint from its
\* position before the call: an endpoint within the tolerance of the anchor
\* on both axes is translated by change, an endpoint outside it or unset is
\* unchanged, whatever happens to the other endpoint.
C19_LineEndpointsIndependent ==
    \A i \in 1..Len(shapes), change \in Deltas, anchor \in Points :
        shapes[i].kind = "Line" =>
            LET s == shapes[i]
            IN  resize(s, change, anchor) =
                    [s EXCEPT !.origin = ResizedEndpoint(s.origin, change, anchor),
                              !.end = ResizedEndpoint(s.end, change, anchor)]

\* A Complete line whose two endpoints share a place: a resize there moves both.
C19_Witness ==
    /\ ~panicked
    /\ Len(shapes) = 1
    /\ shapes[1].kind = "Line"
    /\ shapes[1].state = "Complete"
    /\ shapes[1].origin = Some(<<Unit, 0>>)
    /\ shapes[1].end = Some(<<Unit, 0>>)

\* move_by(dx, dy) and then move_by(-dx, -dy)
MovedThereAndBack(s, d) == move_by(move_by(s, d), <<-d[1], -d[2]>>)

\* C20, as stated: move_by(dx, dy) followed by move_by(-dx, -dy) restores the
\* shape, and on a shape whose origin is unset neither call changes anything.
C20_MoveByInverseIdleWithoutOrigin ==
    \A i \in 1..Len(shapes), d \in Deltas :
        /\ MovedThereAndBack(shapes[i], d) = shapes[i]
        /\ shapes[i].origin = None => move_by(shapes[i], d) = shapes[i]

\* C20, amended: move_by(dx, dy) followed by move_by(-dx, -dy) restores the
\* shape; a Rectangle or Circle whose origin is unset, and a Line with no
\* point set, is unchanged by each call, while a Line whose end is set has its
\* end translated by each call, with or without an origin.
C20_MoveByInverse ==
    \A i \in 1..Len(shapes), d \in Deltas :
        LET s == shapes[i]
        IN  /\ MovedThereAndBack(s, d) = s
            /\ (s.kind /= "Line" /\ s.origin = None) => move_by(s, d) = s
            /\ (s.kind = "Line" /\ s.origin = None /\ s.end = None) => move_by(s, d) = s
            /\ (s.kind = "Line" /\ s.end /= None) =>
                  move_by(s, d).end =
                      Some(<<unwrap(s.end)[1] + d[1], unwrap(s.end)[2] + d[2]>>)

\* A line with no origin whose end is set.
C20_Witness ==
    /\ ~panicked
    /\ Len(shapes) = 1
    /\ shapes[1].kind = "Line"
    /\ shapes[1].origin = None
    /\ shapes[1].end = Some(<<Unit, 0>>)

Min(a, b) == IF a < b THEN a ELSE b

Max(a, b) == IF a < b THEN b ELSE a

\* C21: Rectangle::contains(x, y) is true exactly when the rectangle is
\* drawable (Drawing or Complete, width and height not 0) and
\* min(ox, ox + width) <= x <= max(ox, ox + width) and
\* min(oy, oy + height) <= y <= max(oy, oy + height), the boundary included,
\* for every sign of width and height.
C21_RectangleContains ==
    \A i \in 1..Len(shapes), p \in ProbePoints :
        (shapes[i].kind = "Rectangle" /\ shapes[i].origin /= None) =>
            LET s == shapes[i]
                ox == unwrap(s.origin)[1]
                oy == unwrap(s.origin)[2]
            IN  contains(s, p) <=>
                    /\ s.state \in {"Drawing", "Complete"}
                    /\ s.width /= 0
                    /\ s.height /= 0
                    /\ Min(ox, ox + s.width) <= p[1]
                    /\ p[1] <= Max(ox, ox + s.width)
                    /\ Min(oy, oy + s.height) <= p[2]
                    /\ p[2] <= Max(oy, oy + s.height)

\* A Complete rectangle that extends to the left of and below its origin.
C21_Witness ==
    /\ ~panicked
    /\ Len(shapes) = 1
    /\ shapes[1] = [create_helper("Rectangle") EXCEPT
                      !.origin = Some(<<Unit, 0>>), !.width = -Unit, !.height = Unit,
                      !.state = "Complete"]

\* C22: Line::contains(x, y), for a drawable line with distinct endpoints o
\* and e and d = e - o, is true exactly when 0 <= (p - o).d <= |d|^2 and
\* cross(p - o, d)^2 <= 25 * |d|^2; it is false whenever an endpoint is unset
\* or the line is New.
C22_LineContains ==
    \A i \in 1..Len(shapes), p \in ProbePoints :
        shapes[i].kind = "Line" =>
            LET s == shapes[i]
            IN  IF contains_panics(s) THEN FALSE
                ELSE IF s.origin = None \/ s.end = None \/ s.state = "New"
                THEN ~contains(s, p)
                ELSE LET o == unwrap(s.origin)
                         e == unwrap(s.end)
                         dx == e[1] - o[1]
                         dy == e[2] - o[2]
                         dot == (p[1] - o[1]) * dx + (p[2] - o[2]) * dy
                         cross == (p[1] - o[1]) * dy - (p[2] - o[2]) * dx
                         len2 == dx * dx + dy * dy
                     IN  o /= e =>
                            (contains(s, p) <=>
                                /\ 0 <= dot
                                /\ dot <= len2
                                /\ cross * cross <= Tolerance * Tolerance * len2)

\* C23: Circle::contains(x, y) is true exactly when the origin is
\* set and (x - ox)^2 + (y - oy)^2 <= radius^2, for the radius the circle has
\* or any radius set_prop gives it.
C23_CircleContainsSquaredRadius ==
    \A i \in 1..Len(shapes), p \in ProbePoints, r \in {Unit, -Unit} :
        shapes[i].kind = "Circle" =>
            \A s \in {shapes[i], set_prop(shapes[i], RADIUS_KEY, Some(r))} :
                contains(s, p) <=>
                    /\ s.origin /= None
                    /\ Sq(p[1] - unwrap(s.origin)[1]) + Sq(p[2] - unwrap(s.origin)[2])
                           <= Abs(s.radius_sq)

\* The keys of each kind, in the order get_props is to return them
KeyList(kind) ==
    CASE kind = "Line" -> <<"Origin x", "Origin y", "End x", "End y">>
      [] kind = "Rectangle" -> <<"Origin x", "Origin y", "Width", "Height">>
      [] kind = "Circle" -> <<"Origin x", "Origin y", "Radius">>

\* The text of the number v under key (a radius is held as its signed square)
GivenText(key, v) == IF key = "Radius" THEN to_string(v * Abs(v)) ELSE to_string(v)

\* C24: get_props returns the fixed ordered key list of the kind in every
\* state; set_prop with a key of the kind and a numeric value changes exactly
\* that entry of get_props to the given number and no other entry; set_prop
\* with any other key leaves the shape unchanged; set_prop never changes the
\* state.
C24_PropsReflectSetProp ==
    \A i \in 1..Len(shapes), key \in PropKeyInputs, v \in {-Unit, 0, Unit, 2 * Unit} :
        LET s == shapes[i]
            props == get_props(s)
            after == set_prop(s, key, Some(v))
            keys == KeyList(s.kind)
        IN  /\ [j \in 1..Len(props) |-> props[j][1]] = keys
            /\ after.state = s.state
            /\ IF \E j \in 1..Len(keys) : keys[j] = key
               THEN get_props(after) =
                        [j \in 1..Len(keys) |->
                            IF keys[j] = key THEN <<key, GivenText(key, v)>> ELSE props[j]]
               ELSE after = s

\* set_prop("Origin x") has given a line without origin the origin (Unit, 0),
\* and its end is not on the x axis.
C24_Witness ==
    /\ ~panicked
    /\ Len(shapes) = 1
    /\ shapes[1].kind = "Line"
    /\ shapes[1].state = "New"
    /\ shapes[1].origin = Some(<<Unit, 0>>)
    /\ shapes[1].end = Some(<<0, Unit>>)

\* C25: intersect_and_highlight changes at most the highlighted cursor and
\* intersect_and_select at most the selected cursor; neither changes the
\* current cursor, the sequence of shapes or any shape.
C25_HitTestFrame ==
    \A p \in Points :
        LET h == intersect_and_highlight(Self, p)
            s == intersect_and_select(Self, p)
        IN  /\ h.shapes = shapes
            /\ h.current_shape_idx = current_shape_idx
            /\ h.selected_shape_idx = selected_shape_idx
            /\ s.shapes = shapes
            /\ s.current_shape_idx = current_shape_idx
            /\ s.highlighted_shape_idx = highlighted_shape_idx

\* The two hit tests have left their cursors on different shapes.
C25_Witness ==
    /\ ~panicked
    /\ Len(shapes) = 2
    /\ highlighted_shape_idx = 0
    /\ selected_shape_idx = 1
    /\ current_shape_idx = 1

\* C28: intersect_and_highlight and intersect_and_select never set their
\* cursor to a shape that is not drawable.
C28_HitIsDrawable ==
    \A p \in ProbePoints :
        LET h == intersect_and_highlight(Self, p)
            s == intersect_and_select(Self, p)
        IN  /\ (~h.panicked /\ h.highlighted_shape_idx /= NoIdx) =>
                   is_drawable(At(h.shapes, h.highlighted_shape_idx))
            /\ (~s.panicked /\ s.selected_shape_idx /= NoIdx) =>
                   is_drawable(At(s.shapes, s.selected_shape_idx))

\* The crafted texts that deserialize_from_json decodes to the end
LoadableTexts == {json \in CraftedTexts : ~deserialize_panics(json)}

\* C29: deserialize_from_json on a collection that is not empty appends the
\* decoded shapes after the stored ones, in the order of the document; the
\* stored shapes and the three cursors are unchanged.
C29_LoadAppendsInOrder ==
    shapes /= <<>> =>
        \A json \in LoadableTexts :
            LET after == deserialize_from_json(Self, json)
            IN  /\ after.shapes =
                       shapes \o [j \in 1..Len(ArrayDocs(json)) |->
                                    element_shape(ArrayDocs(json)[j])]
                /\ after.current_shape_idx = current_shape_idx
                /\ after.highlighted_shape_idx = highlighted_shape_idx
                /\ after.selected_shape_idx = selected_shape_idx

\* A document has been loaded behind a selected and highlighted rectangle:
\* its line follows the rectangle and the cursors stay on the rectangle.
C29_Witness ==
    /\ ~panicked
    /\ Len(shapes) = 2
    /\ shapes[1].kind = "Rectangle"
    /\ shapes[1].state = "Complete"
    /\ shapes[2] = element_shape(LineNoOriginDoc)
    /\ current_shape_idx = 0
    /\ highlighted_shape_idx = 0
    /\ selected_shape_idx = 0

\* The position of a corner of the normalized bounds, and the corner
\* diagonally opposite to it
CornerAt(s, c) ==
    <<IF c \in {"top left", "bottom left"} THEN Left(s) ELSE Right(s),
      IF c \in {"top left", "top right"} THEN Top(s) ELSE Bottom(s)>>

Opposite(c) ==
    CASE c = "top left" -> "bottom right"
      [] c = "top right" -> "bottom left"
      [] c = "bottom left" -> "top right"
      [] c = "bottom right" -> "top left"

\* The rectangle r spans the points a and b
Spans(r, a, b) ==
    /\ {Left(r), Right(r)} = {a[1], b[1]}
    /\ {Top(r), Bottom(r)} = {a[2], b[2]}

\* C27: for a Rectangle with width and height of any signs, when the anchor
\* is within the tolerance of a corner of the normalized bounds, resize moves
\* that corner by change and leaves the diagonally opposite corner where it
\* was.
C27_CornerDragKeepsOpposite ==
    \A i \in 1..Len(shapes), change \in Deltas, anchor \in ProbePoints :
        (shapes[i].kind = "Rectangle" /\ shapes[i].origin /= None) =>
            LET s == shapes[i]
                r == resize(s, change, anchor)
            IN  MatchingCorners(s, anchor) /= {} =>
                    \E c \in MatchingCorners(s, anchor) :
                        Spans(r, <<CornerAt(s, c)[1] + change[1],
                                   CornerAt(s, c)[2] + change[2]>>,
                              CornerAt(s, Opposite(c)))

\* The storage after one more operation other than deserialize_from_json
OneMoreOperation ==
    {get_or_create_shape(Self, k) : k \in ShapeType}
    \cup {new_shape(Self, k) : k \in ShapeType}
    \cup {clear(Self), submit_shape(Self)}
    \cup {intersect_and_highlight(Self, p) : p \in Points}
    \cup {intersect_and_select(Self, p) : p \in Points}
    \cup {through_handle(Self, idx, add_point(Target(idx), p), FALSE) :
            idx \in Handles(Self), p \in Points}
    \cup {through_handle(Self, idx, set_end(Target(idx), p), FALSE) :
            idx \in {h \in Handles(Self) : ~set_end_panics(Target(h))}, p \in Points}
    \cup {through_handle(Self, idx, set_prop(Target(idx), key, Some(Unit)), FALSE) :
            idx \in Handles(Self), key \in PropKeyInputs}
    \cup {through_handle(Self, idx, move_by(Target(idx), d), FALSE) :
            idx \in Handles(Self), d \in Deltas}
    \cup {through_handle(Self, idx, resize(Target(idx), d, p), FALSE) :
            idx \in Handles(Self), d \in Deltas, p \in Points}

\* C26: in every state reached without deserialize_from_json, by any mix of
\* get_or_create_shape, new_shape, add_point, set_end, set_prop, move_by,
\* resize, submit_shape, the two hit tests and clear, a collection that is
\* not empty has current_shape_idx = length - 1.
C26_CurrentIsLast ==
    /\ shapes /= <<>> => current_shape_idx = Len(shapes) - 1
    /\ ~panicked =>
           \A st \in OneMoreOperation :
               st.shapes /= <<>> => st.current_shape_idx = Len(st.shapes) - 1

\* new_shape has started a second shape while the first was still Drawing,
\* and the second has since been completed.
C26_Witness ==
    /\ ~panicked
    /\ Len(shapes) = 2
    /\ shapes[1].state = "Drawing"
    /\ shapes[2].state = "Complete"
    /\ current_shape_idx = 1

\* The App after the pointer has moved over the points of ms in turn
RECURSIVE AfterMoves(_, _)
AfterMoves(app, ms) ==
    IF ms = <<>> THEN app
    ELSE AfterMoves(update_MouseMove(app, Head(ms)), Tail(ms))

\* The pointer's moves between two clicks: none, one, or two
MoveSeqs ==
    {<<>>} \cup {<<m>> : m \in ProbePoints} \cup {<<m, n>> : m \in Points, n \in Points}

\* The shape of a kind that the points p1 and p2 define, in a state
DefinedBy(kind, p1, p2, state) ==
    CASE kind = "Line" ->
            [kind |-> "Line", state |-> state, origin |-> Some(p1), end |-> Some(p2),
             width |-> 0, height |-> 0, radius_sq |-> 0]
      [] kind = "Rectangle" ->
            [kind |-> "Rectangle", state |-> state, origin |-> Some(p1), end |-> None,
             width |-> p2[1] - p1[1], height |-> p2[2] - p1[2], radius_sq |-> 0]
      [] kind = "Circle" ->
            [kind |-> "Circle", state |-> state, origin |-> Some(p1), end |-> None,
             width |-> 0, height |-> 0,
             radius_sq |-> Sq(p2[1] - p1[1]) + Sq(p2[2] - p1[2])]

\* The shape of a kind after its first point only
StartedAt(kind, p) ==
    IF kind = "Line"
    THEN [create_helper("Line") EXCEPT !.state = "Drawing", !.origin = Some(p)]
    ELSE DefinedBy(kind, p, p, "Drawing")

\* C30: in Draw mode with an unchanged shape type, starting from an empty
\* collection, MouseClicked(p1), any MouseMoves, MouseClicked(p2) leaves
\* exactly one Complete shape of that type defined by p1 and p2; MouseMove
\* modifies the current shape's end only while it is Drawing; a third
\* MouseClicked starts a new shape at index 1.
C30_ClickMoveClick ==
    /\ (~panicked /\ mode = "Draw") =>
           \A m \in ProbePoints :
               LET idx == get_current_mut(Self)
                   moved == update_MouseMove(App, m)
               IN  IF idx = NoIdx THEN moved = App
                   ELSE IF ~ValidIdx(shapes, idx) THEN TRUE
                   ELSE IF At(shapes, idx).state /= "Drawing" THEN moved = App
                   ELSE moved.shape_storage.panicked \/
                        moved = [App EXCEPT !.shape_storage.shapes =
                                    Put(shapes, idx,
                                        [At(shapes, idx) EXCEPT
                                            !.end = At(moved.shape_storage.shapes, idx).end,
                                            !.width = At(moved.shape_storage.shapes, idx).width,
                                            !.height = At(moved.shape_storage.shapes, idx).height,
                                            !.radius_sq =
                                                At(moved.shape_storage.shapes, idx).radius_sq])]
    /\ (~panicked /\ mode = "Draw" /\ shapes = <<>>) =>
        \A p1 \in Points, p2 \in Points, p3 \in Points, m \in ProbePoints, ms \in MoveSeqs :
            LET before == update_MouseMove(App, m)
                first == update_MouseClicked(before, p1)
                moved == update_MouseMove(first, m)
                second == update_MouseClicked(AfterMoves(first, ms), p2)
                after == update_MouseMove(second, m)
                third == update_MouseClicked(after, p3)
                kind == app_shape_type
            IN  /\ before = App
                /\ first.shape_storage.shapes = <<StartedAt(kind, p1)>>
                /\ moved.shape_storage.shapes = <<DefinedBy(kind, p1, m, "Drawing")>>
                /\ ~second.shape_storage.panicked
                /\ second.shape_storage.shapes = <<DefinedBy(kind, p1, p2, "Complete")>>
                /\ after = second
                /\ ~third.shape_storage.panicked
                /\ third.shape_storage.shapes =
                       <<DefinedBy(kind, p1, p2, "Complete"), StartedAt(kind, p3)>>
                /\ third.shape_storage.current_shape_idx = 1

\* Two clicks in Draw mode have drawn one circle, and the pointer has moved
\* on since.
C30_Witness ==
    /\ ~panicked
    /\ mode = "Draw"
    /\ app_shape_type = "Circle"
    /\ shapes = <<DefinedBy("Circle", <<0, 0>>, <<Unit, Unit>>, "Complete")>>
    /\ current_shape_idx = 0
    /\ ~is_dragging

\* C31: is_dragging is true only between a MouseDown and the next MouseUp:
\* after any MouseUp, whatever MouseDown, MouseUp, MouseMove and ModeChanged
\* messages came before it, is_dragging is false.
C31_MouseUpEndsDrag ==
    ~panicked => \A p \in Points : ~update_MouseUp(App, p).is_dragging

\* A point or an unset point, translated by d
Translated(o, d) ==
    IF o = None THEN None ELSE Some(<<unwrap(o)[1] + d[1], unwrap(o)[2] + d[2]>>)

\* The moves of a drag: the moves between two clicks, and three moves
DragSeqs == MoveSeqs \cup {<<m, n, m>> : m \in Points, n \in ProbePoints}

====
